---- MODULE Spec2Model ----
(***************************************************************************)
(* disbahn: the reconciliation engine of src/lib.rs (DisbahnClient).       *)
(* One process polls an RSS feed, looks every item up in the posts table,  *)
(* and creates or edits a webhook message, then inserts or updates the row.*)
(*                                                                         *)
(* The posts table and the webhook's channel are the environment; they     *)
(* outlive the process.  Every store or sink call may fail.                *)
(***************************************************************************)
EXTENDS Integers, Sequences, FiniteSets, TLC

\* ---------------------------------------------------------------- bounds
MaxFeedLen == 2      \* items in one fetched channel
MaxTime    == 2      \* publication instants 1..MaxTime
MaxCycles  == 2      \* calls of refresh over the life of the store
IdBits     == 3      \* width of the snowflake ids (64 in the program)
MaxSignals == 2      \* SIGINT/SIGTERM sent to the daemon

Guids == {"g1", "g2"}
NoGuid == "none"                       \* an <item> without <guid>
Times == 1..MaxTime

\* item.pub_date(): the string is absent, not RFC 2822, or parses to an instant
PubDateKinds == {"rfc2822", "malformed", "missing"}

\* the validityBegin/validityEnd categories of an item: absent, not
\* "%Y-%m-%d %H:%M:%S", a Berlin local time that exists once, one that a
\* spring-forward skips, one that a fall-back repeats
ValidityKinds == {"single", "absent", "malformed", "gap", "ambiguous"}

WellFormedItems ==
    [guid : Guids, pub : {"rfc2822"}, t : Times, validity : ValidityKinds]

BrokenItems ==
    { [guid |-> NoGuid, pub |-> "rfc2822",   t |-> 1, validity |-> "single"],
      [guid |-> "g1",   pub |-> "malformed", t |-> 1, validity |-> "single"],
      [guid |-> "g1",   pub |-> "missing",   t |-> 1, validity |-> "single"] }

Items == WellFormedItems \cup BrokenItems

RECURSIVE SeqsUpTo(_, _)
SeqsUpTo(S, n) ==
    IF n = 0 THEN {<<>>}
    ELSE LET shorter == SeqsUpTo(S, n - 1)
         IN  shorter \cup {Append(s, x) : s \in {q \in shorter : Len(q) = n - 1}, x \in S}

Feeds == SeqsUpTo(Items, MaxFeedLen)

RECURSIVE Pow2(_)
Pow2(n) == IF n = 0 THEN 1 ELSE 2 * Pow2(n - 1)

\* ------------------------------------------------- database/models.rs
\* the conversion with a slip: i64::try_from(x).unwrap_or(i64::MAX)
U64ToI64Saturating(u) == IF u >= Pow2(IdBits - 1) THEN Pow2(IdBits - 1) - 1 ELSE u

\* i64::from_le_bytes(x.to_le_bytes()) for x: u64, at width IdBits
U64ToI64(u) == IF u >= Pow2(IdBits - 1) THEN u - Pow2(IdBits) ELSE u

\* u64::from_le_bytes(x.to_le_bytes()) for x: i64, at width IdBits
I64ToU64(i) == IF i < 0 THEN i + Pow2(IdBits) ELSE i

\* Post::webhook_id
PostWebhookId(post) == I64ToU64(post.webhook_id)

\* Post::message_id
PostMessageId(post) == I64ToU64(post.message_id)

\* NewPost::new with a slip: the message_id column filled from the webhook id
NewPostCopyPaste(announcement_id, webhook_id, message_id, last_updated) ==
    [announcement_id |-> announcement_id,
     webhook_id      |-> U64ToI64(webhook_id),
     message_id      |-> U64ToI64(webhook_id),
     last_updated    |-> last_updated]

\* NewPost::new
NewPost(announcement_id, webhook_id, message_id, last_updated) ==
    [announcement_id |-> announcement_id,
     webhook_id      |-> U64ToI64(webhook_id),
     message_id      |-> U64ToI64(message_id),
     last_updated    |-> last_updated]

\* ------------------------------------------------------------- lib.rs
\* self.webhook.id: the one target of this engine (top bit set), and the
\* id of another webhook whose rows share the posts table
WebhookId      == Pow2(IdBits) - 1
OtherWebhookId == Pow2(IdBits - 1) - 1

\* the key refresh_item filters and finds by
WebhookKey == U64ToI64(WebhookId)

\* the lookup with a slip: the column compared with the u64, not its i64 image
LookupUnconverted(st, g) ==
    {r \in st : r.webhook_id = WebhookId /\ r.announcement_id = g}

\* posts.filter(webhook_id.eq(..)).filter(announcement_id.eq(guid))
Lookup(st, g) ==
    {r \in st : r.webhook_id = WebhookKey /\ r.announcement_id = g}

\* the comparison with a slip: an item as old as the row counts as newer
IsStaleOrEqual(post, pub_datetime) == post.last_updated <= pub_datetime

\* the comparison with a slip: turned around
IsStaleReversed(post, pub_datetime) == post.last_updated > pub_datetime

\* existing_post.last_updated().and_utc() < pub_datetime
IsStale(post, pub_datetime) == post.last_updated < pub_datetime

\* the update with a slip: the message_id column is set as well
UpdatePostNewMessage(st, g, pub_datetime) ==
    {IF r.announcement_id = g /\ r.webhook_id = WebhookKey
        THEN [r EXCEPT !.last_updated = pub_datetime, !.message_id = 0]
        ELSE r : r \in st}

\* the update with a slip: rows found by webhook alone
UpdatePostAnyGuid(st, g, pub_datetime) ==
    {IF r.webhook_id = WebhookKey
        THEN [r EXCEPT !.last_updated = pub_datetime]
        ELSE r : r \in st}

\* diesel::update(posts.find((guid, key))).set(last_updated.eq(..))
UpdatePost(st, g, pub_datetime) ==
    {IF r.announcement_id = g /\ r.webhook_id = WebhookKey
        THEN [r EXCEPT !.last_updated = pub_datetime]
        ELSE r : r \in st}

\* chrono_tz::Europe::Berlin.from_local_datetime(&naive)
FromLocalDatetime(v) ==
    CASE v = "single"    -> "Single"
      [] v = "gap"       -> "None"
      [] v = "ambiguous" -> "Ambiguous"

\* validity_time_to_timestamp: parse, then LocalResult::unwrap
ValidityTimeToTimestamp(v) ==
    IF v = "malformed" THEN "Err"
    ELSE IF FromLocalDatetime(v) = "Single" THEN "Ok" ELSE "Panic"

\* item_to_embed: Ok(embed), Err, or a panic out of the unwrap.  A missing
\* title, link or description returns Err like a missing validity category;
\* the publication date was parsed by refresh_item before.
ItemToEmbed(item) ==
    IF item.validity = "absent" THEN "Err"
    ELSE ValidityTimeToTimestamp(item.validity)

\* the loop with a slip: the items taken from the back (items.iter().rev())
ItemAtReversed(f, i) == f[Len(f) + 1 - i]

\* for item in items: the i-th item the loop hands to refresh_item
ItemAt(f, i) == f[i]

\* the loop with a slip: the item's error leaves refresh (`?`)
OnItemErrorReturn == "idle"

\* if let Err(err) = self.refresh_item(item).await { error!(..) }: where the
\* loop stands after an item returned Err
OnItemError == "item"

\* the `?` with a slip: the sink's error is dropped
SinkProceedsAlways(ok) == TRUE

\* the sink continues to the store write only on Ok (the `?` after .await)
SinkProceeds(ok) == ok

NoEmbed == [guid |-> NoGuid, t |-> 0]
Embed(item) == [guid |-> item.guid, t |-> item.t]

\* ------------------------------------------------------------- state
VARIABLES
    pc,             \* "idle" | "item" | "render" | "sink" | "write" | "panicked";
                    \* "start" and "exited" under SpecMain and SpecKv
    cycles,         \* refresh calls so far
    ret,            \* what the last refresh returned
    feed,           \* channel.items() of the running (or last) cycle
    idx,            \* position of the item in hand (0 before the first)
    guid, pub_datetime, existing_post, embed, message,   \* refresh_item's locals
    result,         \* what the last refresh_item returned
    store,          \* rows of the posts table
    sink,           \* messages in the webhook's channel
    log,            \* the steps of this cycle, in order
    pre,            \* the posts table when the item in hand was taken up
    replay,         \* this cycle fetched the feed of the cycle before
    clean,          \* the cycle before returned Ok with no failed sink or store call
    mode,           \* bin/disbahn.rs main: "daemon" | "once" ("none": engine alone)
    shutdown,       \* bin/disbahn.rs main: wait_for_shutdown_signal has completed
    exit,           \* bin/disbahn.rs and main.rs: what main returned
    missed,         \* shutdown signals that met no listener
    errors,         \* bin/disbahn.rs: error!(..) lines the daemon loop wrote
    known_guids,    \* main.rs: the sled tree, guid -> timestamp
    is_update,      \* main.rs refresh: the local is_update
    webhook,        \* self.webhook.id (the engine's is WebhookId; SpecId lets it range)
    edited          \* SpecId: the message id handed to edit_message

vars == <<pc, cycles, ret, feed, idx, guid, pub_datetime, existing_post, embed,
          message, result, store, sink, log, pre, replay, clean,
          mode, shutdown, exit, missed, errors, known_guids, is_update,
          webhook, edited>>

\* what main of bin/disbahn.rs adds to the engine's state
proc == <<mode, shutdown, exit, missed, errors>>

\* what main.rs keeps instead of the posts table
kv == <<known_guids, is_update>>

locals == <<guid, pub_datetime, existing_post, embed, message>>

\* what SpecId adds: the identifiers the conversions are applied to
ident == <<webhook, edited>>

Event(op, ok, arg) == [op |-> op, idx |-> idx, ok |-> ok, arg |-> arg]

StoreOps == {"find", "insert", "update"}
SinkOps  == {"create", "edit"}

NoFailedCall(l) ==
    \A k \in 1..Len(l) : l[k].op \in StoreOps \cup SinkOps => l[k].ok

\* the cycle before went through every item of its feed
RanThrough == idx = Len(feed) /\ result # "panic"

ForeignRow == [announcement_id |-> "g1", webhook_id |-> U64ToI64(OtherWebhookId),
               message_id |-> 1, last_updated |-> MaxTime]

ClearLocals ==
    /\ guid' = NoGuid
    /\ pub_datetime' = 0
    /\ existing_post' = {}
    /\ embed' = NoEmbed
    /\ message' = 0

Init ==
    /\ pc = "idle"
    /\ cycles = 0
    /\ ret = "none"
    /\ feed = <<>>
    /\ idx = 0
    /\ guid = NoGuid
    /\ pub_datetime = 0
    /\ existing_post = {}
    /\ embed = NoEmbed
    /\ message = 0
    /\ result = "none"
    /\ store \in {{}, {ForeignRow}}
    /\ sink = {}
    /\ log = <<>>
    /\ pre = store
    /\ replay = FALSE
    /\ clean = TRUE
    /\ mode = "none"
    /\ shutdown = FALSE
    /\ exit = "none"
    /\ missed = 0
    /\ errors = 0
    /\ known_guids = <<>>
    /\ is_update = FALSE
    /\ webhook = WebhookId
    /\ edited = 0

\* ------------------------------------------------------------ actions
\* refresh, lib.rs: get_rss_channel returned the channel f
BeginCycle(f) ==
    /\ feed' = f
    /\ replay' = (cycles > 0 /\ f = feed)
    /\ clean' = (RanThrough /\ NoFailedCall(log))
    /\ cycles' = cycles + 1
    /\ idx' = 0
    /\ log' = <<>>
    /\ pre' = store
    /\ pc' = "item"
    /\ ret' = "running"
    /\ result' = "none"
    /\ UNCHANGED <<locals, store, sink>>

\* refresh: get_rss_channel returned a channel
Refresh ==
    /\ pc = "idle"
    /\ cycles < MaxCycles
    /\ \E f \in Feeds : BeginCycle(f)
    /\ UNCHANGED <<proc, kv, ident>>

\* refresh: get_rss_channel failed, the `?` returns the error
RefreshFeedError ==
    /\ pc = "idle"
    /\ cycles < MaxCycles
    /\ cycles' = cycles + 1
    /\ ret' = "err"
    /\ UNCHANGED <<pc, feed, idx, locals, result, store, sink, log, pre, replay, clean>>
    /\ UNCHANGED <<proc, kv, ident>>

\* refresh_item, up to the first suspension: guid, pub_date, the lookup,
\* and the classification
LoadItem ==
    /\ pc = "item"
    /\ idx < Len(feed)
    /\ idx' = idx + 1
    /\ pre' = store
    /\ LET item == ItemAt(feed, idx + 1)
           ev(op, ok) == [op |-> op, idx |-> idx + 1, ok |-> ok, arg |-> 0]
       IN  IF item.guid = NoGuid \/ item.pub # "rfc2822"
           THEN /\ log' = Append(log, ev("parse", FALSE))
                /\ result' = "err"
                /\ pc' = OnItemError
                /\ UNCHANGED locals
           ELSE \E dbok \in BOOLEAN :
                LET found == Lookup(store, item.guid)
                    l1 == Append(log, ev("parse", TRUE))
                IN  /\ log' = Append(l1, ev("find", dbok))
                    /\ IF ~dbok
                       THEN /\ result' = "err"
                            /\ pc' = OnItemError
                            /\ UNCHANGED locals
                       ELSE IF found # {} /\ ~IsStale(CHOOSE r \in found : TRUE, item.t)
                       THEN /\ result' = "ok"
                            /\ pc' = "item"
                            /\ UNCHANGED locals
                       ELSE /\ result' = "none"
                            /\ pc' = "render"
                            /\ guid' = item.guid
                            /\ pub_datetime' = item.t
                            /\ existing_post' =
                                 IF found = {} THEN {} ELSE {CHOOSE r \in found : TRUE}
                            /\ UNCHANGED <<embed, message>>
    /\ UNCHANGED <<cycles, ret, feed, store, sink, replay, clean>>
    /\ UNCHANGED <<proc, kv, ident>>

\* refresh_item: item_to_embed
Render ==
    /\ pc = "render"
    /\ LET r == ItemToEmbed(ItemAt(feed, idx))
       IN  /\ log' = Append(log, Event("render", r = "Ok", 0))
           /\ CASE r = "Ok" ->
                     /\ embed' = Embed(ItemAt(feed, idx))
                     /\ pc' = "sink"
                     /\ UNCHANGED <<guid, pub_datetime, existing_post, message, result>>
                [] r = "Err" ->
                     /\ ClearLocals
                     /\ result' = "err"
                     /\ pc' = OnItemError
                [] r = "Panic" ->
                     /\ ClearLocals
                     /\ result' = "panic"
                     /\ pc' = "panicked"
    /\ UNCHANGED <<cycles, ret, feed, idx, store, sink, pre, replay, clean>>
    /\ UNCHANGED <<proc, kv, ident>>

\* the id the channel gives its next message: snowflakes grow, and cross
\* the sign bit of the stored i64
NextMessageId == Pow2(IdBits - 1) - 1 + Cardinality(sink)

\* refresh_item: webhook.execute(.., wait = true, ..) for a new item
SinkCreate ==
    /\ pc = "sink"
    /\ existing_post = {}
    /\ \E ok \in BOOLEAN :
        /\ ok => NextMessageId < Pow2(IdBits)
        /\ log' = Append(log, Event("create", ok, IF ok THEN NextMessageId ELSE 0))
        /\ sink' = IF ok
                   THEN sink \cup {[id |-> NextMessageId, guid |-> embed.guid, t |-> embed.t]}
                   ELSE sink
        /\ IF SinkProceeds(ok)
           THEN /\ message' = IF ok THEN NextMessageId ELSE 0
                /\ pc' = "write"
                /\ UNCHANGED <<guid, pub_datetime, existing_post, embed, result>>
           ELSE /\ ClearLocals
                /\ result' = "err"
                /\ pc' = OnItemError
    /\ UNCHANGED <<cycles, ret, feed, idx, store, pre, replay, clean>>
    /\ UNCHANGED <<proc, kv, ident>>

\* refresh_item: webhook.edit_message(.., existing_post.message_id(), ..)
SinkEdit ==
    /\ pc = "sink"
    /\ existing_post # {}
    /\ LET post == CHOOSE r \in existing_post : TRUE
           mid  == PostMessageId(post)
       IN  \E ok \in BOOLEAN :
            /\ ok => \E m \in sink : m.id = mid
            /\ log' = Append(log, Event("edit", ok, mid))
            /\ sink' = IF ok
                       THEN {IF m.id = mid THEN [m EXCEPT !.t = embed.t] ELSE m : m \in sink}
                       ELSE sink
            /\ IF SinkProceeds(ok)
               THEN /\ pc' = "write"
                    /\ UNCHANGED <<locals, result>>
               ELSE /\ ClearLocals
                    /\ result' = "err"
                    /\ pc' = OnItemError
    /\ UNCHANGED <<cycles, ret, feed, idx, store, pre, replay, clean>>
    /\ UNCHANGED <<proc, kv, ident>>

\* refresh_item: diesel::insert_into(posts).values(NewPost::new(..)).
\* The table is a set of rows: the key constraint of the schema (in the
\* migrations) is not relied upon, a second row of a key would be stored.
StoreInsert ==
    /\ pc = "write"
    /\ existing_post = {}
    /\ \E ok \in BOOLEAN :
        /\ log' = Append(log, Event("insert", ok, 0))
        /\ store' = IF ok
                    THEN store \cup {NewPost(guid, WebhookId, message, pub_datetime)}
                    ELSE store
        /\ result' = IF ok THEN "ok" ELSE "err"
        /\ pc' = IF ok THEN "item" ELSE OnItemError
    /\ ClearLocals
    /\ UNCHANGED <<cycles, ret, feed, idx, sink, pre, replay, clean>>
    /\ UNCHANGED <<proc, kv, ident>>

\* refresh_item: diesel::update(posts.find(..)).set(last_updated.eq(..))
StoreUpdate ==
    /\ pc = "write"
    /\ existing_post # {}
    /\ \E ok \in BOOLEAN :
        /\ log' = Append(log, Event("update", ok, 0))
        /\ store' = IF ok THEN UpdatePost(store, guid, pub_datetime) ELSE store
        /\ result' = IF ok THEN "ok" ELSE "err"
        /\ pc' = IF ok THEN "item" ELSE OnItemError
    /\ ClearLocals
    /\ UNCHANGED <<cycles, ret, feed, idx, sink, pre, replay, clean>>
    /\ UNCHANGED <<proc, kv, ident>>

\* refresh: the loop is through, Ok(())
RefreshReturn ==
    /\ pc = "item"
    /\ idx = Len(feed)
    /\ pc' = "idle"
    /\ ret' = "ok"
    /\ UNCHANGED <<cycles, feed, idx, locals, result, store, sink, log, pre, replay, clean>>
    /\ UNCHANGED <<proc, kv, ident>>

\* the panic unwound through main; the process is started again
Restart ==
    /\ pc = "panicked"
    /\ pc' = "idle"
    /\ ret' = "panic"
    /\ UNCHANGED <<cycles, feed, idx, locals, result, store, sink, log, pre, replay, clean>>
    /\ UNCHANGED <<proc, kv, ident>>

Next ==
    \/ Refresh
    \/ RefreshFeedError
    \/ LoadItem
    \/ Render
    \/ SinkCreate
    \/ SinkEdit
    \/ StoreInsert
    \/ StoreUpdate
    \/ RefreshReturn
    \/ Restart

Spec == Init /\ [][Next]_vars

TypeOK ==
    /\ pc \in {"start", "idle", "item", "render", "sink", "write", "panicked", "exited",
              "stored", "found", "edited"}
    /\ cycles \in 0..MaxCycles
    /\ mode \in {"none", "daemon", "once"}
    /\ exit \in {"none", "ok", "err"}
    /\ shutdown \in BOOLEAN
    /\ missed \in 0..MaxSignals
    /\ errors \in 0..MaxCycles
    /\ feed \in Feeds
    /\ idx \in 0..Len(feed)
    /\ Cardinality(existing_post) <= 1
\* ------------------------------------------------------------- claims
SinkCalls(l) == {k \in 1..Len(l) : l[k].op \in SinkOps}

\* the events of the item at position i, in order
RECURSIVE EventsOf(_, _)
EventsOf(l, i) ==
    IF l = <<>> THEN <<>>
    ELSE IF Head(l).idx = i THEN <<Head(l)>> \o EventsOf(Tail(l), i)
    ELSE EventsOf(Tail(l), i)

Ops(l) == [k \in 1..Len(l) |-> l[k].op]

TargetRows(st, g) ==
    {r \in st : r.announcement_id = g /\ I64ToU64(r.webhook_id) = WebhookId}

\* C1 as stated: a cycle over the feed of the cycle before makes no create
\* and no edit call, whatever happened in the cycle before.
C1_IdempotentAlways == replay => SinkCalls(log) = {}

\* C1 amended: a cycle over the feed of the cycle before, when the cycle
\* before returned Ok and none of its sink or store calls failed, makes no
\* create and no edit call.
C1_Idempotent == (replay /\ clean) => SinkCalls(log) = {}

\* C1 witness: the second pass over a feed whose first item was announced
\* by the first pass has run to its end.
C1_Witness ==
    /\ replay /\ clean /\ pc = "idle" /\ ret = "ok"
    /\ Len(feed) = MaxFeedLen
    /\ \A i \in 1..Len(feed) : TargetRows(store, feed[i].guid) # {}
    /\ Len(log) = 2 * Len(feed)
\* the item at idx has been handled: the loop is between items or through
Handled == pc \in {"item", "idle"} /\ idx >= 1

\* the item has a guid and an RFC 2822 publication date
Parses(item) == item.guid # NoGuid /\ item.pub = "rfc2822"

\* no step of the item at position i failed
AllSucceeded(i) == \A k \in 1..Len(log) : log[k].idx = i => log[k].ok

\* C2: at most one message is ever created in the channel for one guid.
C2_AtMostOneCreate ==
    \A g \in Guids : Cardinality({m \in sink : m.guid = g}) <= 1

\* C3: an item without a row, whose render, create and insert succeed, makes
\* exactly one create, no edit, and one insert; the new row holds the id the
\* create returned and the item's publication instant.
C3_Unseen ==
    (/\ Handled
     /\ Parses(feed[idx])
     /\ TargetRows(pre, feed[idx].guid) = {}
     /\ AllSucceeded(idx))
    => LET ev == EventsOf(log, idx)
       IN  /\ Ops(ev) = <<"parse", "find", "render", "create", "insert">>
           /\ \E m \in sink : m.id = ev[4].arg /\ m.guid = feed[idx].guid
           /\ \E row \in store \ pre :
                /\ store = pre \cup {row}
                /\ row.announcement_id = feed[idx].guid
                /\ I64ToU64(row.webhook_id) = WebhookId
                /\ I64ToU64(row.message_id) = ev[4].arg
                /\ row.last_updated = feed[idx].t

\* C3 witness: a new item has been announced under an id whose top bit is set.
C3_Witness ==
    /\ Handled
    /\ Parses(feed[idx])
    /\ TargetRows(pre, feed[idx].guid) = {}
    /\ AllSucceeded(idx)
    /\ \E row \in store \ pre : row.message_id < 0

\* C4: an item whose row is older, whose render, edit and update succeed,
\* makes exactly one edit, addressed to the row's message, no create, and one
\* update that sets last_updated to the item's instant and nothing else.
C4_Stale ==
    (/\ Handled
     /\ Parses(feed[idx])
     /\ \E r \in TargetRows(pre, feed[idx].guid) : r.last_updated < feed[idx].t
     /\ AllSucceeded(idx))
    => LET ev == EventsOf(log, idx)
       IN  \A r \in TargetRows(pre, feed[idx].guid) :
             /\ Ops(ev) = <<"parse", "find", "render", "edit", "update">>
             /\ ev[4].arg = I64ToU64(r.message_id)
             /\ \E m \in sink : m.id = ev[4].arg /\ m.t = feed[idx].t
             /\ store = (pre \ {r}) \cup {[r EXCEPT !.last_updated = feed[idx].t]}

\* C4 witness: an update has been applied while the table holds a second row
\* of the same webhook.
C4_Witness ==
    /\ Handled
    /\ Parses(feed[idx])
    /\ \E r \in TargetRows(pre, feed[idx].guid) : r.last_updated < feed[idx].t
    /\ AllSucceeded(idx)
    /\ \E g \in Guids \ {feed[idx].guid} : TargetRows(pre, g) # {}

\* C5: an item whose row is as new or newer is not rendered, reaches neither
\* the sink nor a store write, and does not fail in rendering.
C5_Current ==
    (/\ idx >= 1
     /\ Parses(feed[idx])
     /\ \E r \in TargetRows(pre, feed[idx].guid) : r.last_updated >= feed[idx].t)
    => /\ \A k \in 1..Len(log) : log[k].idx = idx => log[k].op \in {"parse", "find"}
       /\ store = pre
       /\ pc \in {"item", "idle"}
       /\ AllSucceeded(idx) => result = "ok"

\* C5 witness: an item exactly as old as its row, which could not have been
\* rendered, has been passed over with Ok.
C5_Witness ==
    /\ Handled
    /\ Parses(feed[idx])
    /\ \E r \in TargetRows(pre, feed[idx].guid) : r.last_updated = feed[idx].t
    /\ feed[idx].validity # "single"
    /\ result = "ok"

\* C6: a failing item never stops the cycle: the process does not die of it,
\* and the refresh ends with Ok after the last item of the feed.
C6_Isolation ==
    (\E k \in 1..Len(log) : ~log[k].ok)
    => /\ pc # "panicked"
       /\ pc = "idle" => (idx = Len(feed) /\ ret \in {"ok", "err"})

\* C7: between items and between cycles, every message of the channel has
\* its row, with the message's id and the instant of its content.
C7_Atomic ==
    pc \in {"item", "idle"}
    => \A m \in sink : \E r \in TargetRows(store, m.guid) :
          I64ToU64(r.message_id) = m.id /\ r.last_updated = m.t

\* C8: when the render, the sink call or the store write of an item failed,
\* the rows of the item's key are what they were before the item.
C8_NoMutationOnFailure ==
    (/\ idx >= 1
     /\ \E k \in 1..Len(log) :
          /\ log[k].idx = idx
          /\ ~log[k].ok
          /\ log[k].op \in {"render", "create", "edit", "insert", "update"})
    => TargetRows(store, feed[idx].guid) = TargetRows(pre, feed[idx].guid)

\* C8 witness: the update of a stale item failed after its edit went through.
C8_Witness ==
    /\ Handled
    /\ Len(log) >= 1
    /\ log[Len(log)].idx = idx
    /\ log[Len(log)].op = "update"
    /\ ~log[Len(log)].ok
    /\ \E r \in TargetRows(store, feed[idx].guid) : r.last_updated < feed[idx].t

\* C9: the table holds at most one row per (webhook_id, announcement_id).
C9_KeyUnique ==
    \A r1, r2 \in store :
        (r1.announcement_id = r2.announcement_id /\ r1.webhook_id = r2.webhook_id)
        => r1 = r2

\* C9 witness: a feed that names one guid twice has been gone through, both
\* items acted upon.
C9_Witness ==
    /\ pc = "idle" /\ ret = "ok"
    /\ Len(feed) = 2
    /\ feed[1].guid = feed[2].guid
    /\ Parses(feed[1]) /\ Parses(feed[2])
    /\ feed[1].t < feed[2].t
    /\ Ops(log) = <<"parse", "find", "render", "create", "insert",
                    "parse", "find", "render", "edit", "update">>
    /\ NoFailedCall(log)

\* C10: no step lowers the last_updated of a row of this webhook, and no
\* step removes such a row.
C10_Monotone ==
    [][\A r \in store :
          I64ToU64(r.webhook_id) = WebhookId
          => \E r2 \in store' :
                /\ r2.announcement_id = r.announcement_id
                /\ r2.webhook_id = r.webhook_id
                /\ r2.last_updated >= r.last_updated]_vars

\* C10 witness: an item older than its row has been handled.
C10_Witness ==
    /\ Handled
    /\ Parses(feed[idx])
    /\ AllSucceeded(idx)
    /\ \E r \in TargetRows(store, feed[idx].guid) : r.last_updated > feed[idx].t
\* ------------------------------------------------ one cycle, three items
OrderFeedLen == 3

OrderGuids == Guids \cup {"g3"}

OrderItems ==
    [guid : OrderGuids, pub : {"rfc2822"}, t : Times, validity : {"single"}]

OrderFeeds == SeqsUpTo(OrderItems, OrderFeedLen)

\* refresh, once, over a channel of up to OrderFeedLen renderable items
OrderRefresh ==
    /\ pc = "idle"
    /\ cycles = 0
    /\ \E f \in OrderFeeds : BeginCycle(f)
    /\ UNCHANGED <<proc, kv, ident>>

OrderNext ==
    \/ OrderRefresh
    \/ LoadItem
    \/ Render
    \/ SinkCreate
    \/ SinkEdit
    \/ StoreInsert
    \/ StoreUpdate
    \/ RefreshReturn

SpecOrder == Init /\ [][OrderNext]_vars

\* the guid of the channel's message with the id i
GuidOfMessage(i) == (CHOOSE m \in sink : m.id = i).guid

\* the creates that went through, in the order of the log
RECURSIVE Creates(_)
Creates(l) ==
    IF l = <<>> THEN <<>>
    ELSE IF Head(l).op = "create" /\ Head(l).ok
         THEN <<Head(l)>> \o Creates(Tail(l))
         ELSE Creates(Tail(l))

\* C11: the steps of a cycle come in feed order: no step of a later item
\* comes before a step of an earlier one, and the messages are created in
\* the order of the items they announce (three new items A, B, C: creates
\* A, B, C).
C11_FeedOrder ==
    /\ \A k1, k2 \in 1..Len(log) : k1 < k2 => log[k1].idx <= log[k2].idx
    /\ LET cr == Creates(log)
       IN  /\ \A k \in 1..Len(cr) : GuidOfMessage(cr[k].arg) = feed[cr[k].idx].guid
           /\ \A k1, k2 \in 1..Len(cr) :
                k1 < k2 => (cr[k1].idx < cr[k2].idx /\ cr[k1].arg < cr[k2].arg)
    /\ (/\ Len(feed) = 3
        /\ Cardinality({feed[i].guid : i \in 1..3}) = 3
        /\ Ops(log) = <<"parse", "find", "render", "create", "insert",
                        "parse", "find", "render", "create", "insert",
                        "parse", "find", "render", "create", "insert">>
        /\ NoFailedCall(log))
       => [k \in 1..3 |-> GuidOfMessage(Creates(log)[k].arg)]
            = [k \in 1..3 |-> feed[k].guid]

\* C11 witness: three new items with three guids have been announced.
C11_Witness ==
    /\ pc = "idle"
    /\ Len(feed) = 3
    /\ Cardinality({feed[i].guid : i \in 1..3}) = 3
    /\ Len(Creates(log)) = 3
    /\ NoFailedCall(log)
    /\ Len(log) = 15
\* C12: a refresh whose feed cannot be fetched or parsed returns the error
\* with no item taken up, no sink call and the table as it was; a refresh
\* that got its feed returns Ok whatever its items did.
C12_FeedFailureFatal ==
    [][/\ (cycles' = cycles + 1 /\ ret' = "err")
            => (pc' = "idle" /\ UNCHANGED <<store, sink, log, idx, feed, pre>>)
       /\ (pc \in {"item", "render", "sink", "write"} /\ pc' = "idle")
            => ret' = "ok"]_vars

\* C12 witness: after a cycle that announced an item, a refresh has failed on
\* its feed.
C12_Witness ==
    /\ pc = "idle"
    /\ ret = "err"
    /\ cycles = 2
    /\ sink # {}
    /\ \E g \in Guids : TargetRows(store, g) # {}
\* s is the beginning of t
IsPrefix(s, t) == Len(s) <= Len(t) /\ \A k \in 1..Len(s) : s[k] = t[k]

\* C13: the steps of one item come one after the other in the order lookup,
\* render, sink call, store write; each is taken only after the one before
\* returned Ok, so no write follows a failed render or a failed sink call.
C13_StepOrder ==
    \A i \in 1..idx :
        LET ev == EventsOf(log, i)
        IN  /\ \/ IsPrefix(Ops(ev), <<"parse", "find", "render", "create", "insert">>)
               \/ IsPrefix(Ops(ev), <<"parse", "find", "render", "edit", "update">>)
            /\ \A k \in 1..(Len(ev) - 1) : ev[k].ok
            /\ (pc = "write" /\ i = idx) => (Len(ev) = 4 /\ ev[4].ok)

\* C13 witness: the sink call of the first item failed, and the second item
\* went through lookup, render, sink call and write.
C13_Witness ==
    /\ Handled
    /\ idx = 2
    /\ Len(EventsOf(log, 1)) = 4
    /\ ~EventsOf(log, 1)[4].ok
    /\ Len(EventsOf(log, 2)) = 5
    /\ AllSucceeded(2)

\* C14: an insert is issued only for a key without a row, an update only for
\* a key with a row, at the moment of the write.
C14_NoKeyBreach ==
    pc = "write"
    => (existing_post = {} <=> TargetRows(store, guid) = {})

\* C14 witness: an insert is about to be issued for a guid that another
\* webhook has a row for.
C14_Witness ==
    /\ pc = "write"
    /\ existing_post = {}
    /\ \E r \in store : r.announcement_id = guid
    /\ \E g \in Guids \ {guid} : TargetRows(store, g) # {}
\* every row of this webhook names a message that was created for its guid
RowsNameTheirMessage ==
    \A r \in store :
        I64ToU64(r.webhook_id) = WebhookId
        => \E m \in sink : m.id = I64ToU64(r.message_id) /\ m.guid = r.announcement_id

\* C15: a row of this webhook is never removed, its message id stays the id
\* the create for its guid returned, and no step changes any of its fields
\* but last_updated.
C15_RecordFrame ==
    [][/\ \A r \in store :
            I64ToU64(r.webhook_id) = WebhookId
            => \E r2 \in store' : r2 = [r EXCEPT !.last_updated = r2.last_updated]
       /\ RowsNameTheirMessage']_vars

\* C15 witness: a row has been updated.
C15_Witness ==
    /\ Handled
    /\ log[Len(log)].op = "update"
    /\ log[Len(log)].ok
    /\ \E r \in pre \ store : TRUE

\* C16: a validity time that the Berlin zone skips or repeats does not take
\* the process down: the item in hand ends in Ok or Err.
C16_ConversionContained ==
    \A i \in 1..idx :
        feed[i].validity \in {"gap", "ambiguous"} => pc # "panicked"
\* ------------------------------------------------- bin/disbahn.rs: main
MainFeedLen == 1     \* items in a channel fetched under SpecMain

MainFeeds == SeqsUpTo(Items, MainFeedLen)

\* the select! with a slip: the shutdown future raced against the refresh too
ShutdownObservedAnywhere(p) == p \in {"idle", "item", "render", "sink", "write"}

\* wait_for_shutdown_signal is polled only inside the select! of the loop,
\* next to the sleep: at "idle"
ShutdownObserved(p) == p = "idle"

\* the loop with a slip: the error of refresh ends the daemon (`?`)
AfterRefreshPropagate(m, r) == IF m = "daemon" /\ r = "ok" THEN "idle" ELSE "exited"

\* where main stands after refresh returned r: the daemon logs an error and
\* loops, run-once returns what refresh returned
AfterRefresh(m, r) == IF m = "daemon" THEN "idle" ELSE "exited"

\* main, after the client is built: args.next() decided the mode
InitMain ==
    /\ pc = "start"
    /\ cycles = 0
    /\ ret = "none"
    /\ feed = <<>>
    /\ idx = 0
    /\ guid = NoGuid
    /\ pub_datetime = 0
    /\ existing_post = {}
    /\ embed = NoEmbed
    /\ message = 0
    /\ result = "none"
    /\ store = {}
    /\ sink = {}
    /\ log = <<>>
    /\ pre = store
    /\ replay = FALSE
    /\ clean = TRUE
    /\ mode \in {"daemon", "once"}
    /\ shutdown = FALSE
    /\ exit = "none"
    /\ missed = 0
    /\ errors = 0
    /\ known_guids = <<>>
    /\ is_update = FALSE
    /\ webhook = WebhookId
    /\ edited = 0

engine == <<cycles, ret, feed, idx, locals, result, store, sink, log, pre, replay, clean>>

\* daemon: the first turn of the loop reaches the select!
DaemonEnter ==
    /\ pc = "start"
    /\ mode = "daemon"
    /\ pc' = "idle"
    /\ UNCHANGED <<engine, proc, kv, ident>>

\* daemon: the sleep branch of the select! completed; refresh got its channel.
\* A shutdown future that completed in the same poll is dropped with it.
DaemonRefresh ==
    /\ pc = "idle"
    /\ mode = "daemon"
    /\ cycles < MaxCycles
    /\ \E f \in MainFeeds : BeginCycle(f)
    /\ shutdown' = FALSE
    /\ missed' = IF shutdown THEN missed + 1 ELSE missed
    /\ UNCHANGED <<mode, exit, errors, kv, ident>>

\* daemon: the sleep branch completed; refresh failed on its feed, error!(..)
DaemonRefreshFeedError ==
    /\ pc = "idle"
    /\ mode = "daemon"
    /\ cycles < MaxCycles
    /\ cycles' = cycles + 1
    /\ ret' = "err"
    /\ pc' = AfterRefresh(mode, "err")
    /\ exit' = IF AfterRefresh(mode, "err") = "exited" THEN "err" ELSE exit
    /\ shutdown' = FALSE
    /\ missed' = IF shutdown THEN missed + 1 ELSE missed
    /\ errors' = errors + 1
    /\ UNCHANGED <<feed, idx, locals, result, store, sink, log, pre, replay, clean, mode, kv, ident>>

\* run-once: disbahn_client.refresh().await got its channel
OnceRefresh ==
    /\ pc = "start"
    /\ mode = "once"
    /\ \E f \in MainFeeds : BeginCycle(f)
    /\ UNCHANGED <<proc, kv, ident>>

\* run-once: refresh failed on its feed; main returns the error
OnceRefreshFeedError ==
    /\ pc = "start"
    /\ mode = "once"
    /\ cycles' = cycles + 1
    /\ ret' = "err"
    /\ pc' = AfterRefresh(mode, "err")
    /\ exit' = "err"
    /\ UNCHANGED <<feed, idx, locals, result, store, sink, log, pre, replay, clean,
                   mode, shutdown, missed, errors, kv, ident>>

\* refresh returned Ok(()) to main
MainRefreshReturn ==
    /\ pc = "item"
    /\ idx = Len(feed)
    /\ ret' = "ok"
    /\ pc' = AfterRefresh(mode, "ok")
    /\ exit' = IF AfterRefresh(mode, "ok") = "exited" THEN "ok" ELSE exit
    /\ UNCHANGED <<cycles, feed, idx, locals, result, store, sink, log, pre, replay,
                   clean, mode, shutdown, missed, errors, kv, ident>>

\* SIGINT or SIGTERM reaches the daemon.  The handlers tokio installed at the
\* first select! stay installed; the signal completes the shutdown future
\* if one is being polled and is dropped otherwise.
Signal ==
    /\ mode = "daemon"
    /\ pc \in {"idle", "item", "render", "sink", "write"}
    /\ ~shutdown
    /\ missed + 1 <= MaxSignals
    /\ IF ShutdownObserved(pc)
       THEN shutdown' = TRUE /\ missed' = missed
       ELSE shutdown' = FALSE /\ missed' = missed + 1
    /\ UNCHANGED <<pc, engine, mode, exit, errors, kv, ident>>

\* daemon: the shutdown branch of the select! completed; break Ok(())
DaemonShutdown ==
    /\ mode = "daemon"
    /\ ShutdownObserved(pc)
    /\ shutdown
    /\ pc' = "exited"
    /\ exit' = "ok"
    /\ UNCHANGED <<engine, mode, shutdown, missed, errors, kv, ident>>

MainNext ==
    \/ DaemonEnter
    \/ DaemonRefresh
    \/ DaemonRefreshFeedError
    \/ OnceRefresh
    \/ OnceRefreshFeedError
    \/ LoadItem
    \/ Render
    \/ SinkCreate
    \/ SinkEdit
    \/ StoreInsert
    \/ StoreUpdate
    \/ MainRefreshReturn
    \/ Signal
    \/ DaemonShutdown

SpecMain == InitMain /\ [][MainNext]_vars
\* C17: in daemon mode the process is ended by a shutdown signal only between
\* cycles: when it has exited no refresh is under way, the last cycle went
\* through its whole feed, and no item of it has a sink call that succeeded
\* without the store write that follows it having been attempted.
C17_ShutdownWhole ==
    (mode = "daemon" /\ pc = "exited") =>
        /\ ret # "running"
        /\ idx = Len(feed)
        /\ \A i \in 1..idx :
              LET ev == EventsOf(log, i)
              IN  (\E k \in 1..Len(ev) : ev[k].op \in SinkOps /\ ev[k].ok)
                      => ev[Len(ev)].op \in StoreOps

\* C17 witness: the daemon has exited on a shutdown signal after a cycle
\* that announced an item, and a signal sent during a cycle went unheeded.
C17_Witness ==
    /\ mode = "daemon"
    /\ pc = "exited"
    /\ exit = "ok"
    /\ missed >= 1
    /\ sink # {}
    /\ store # {}

\* C18: run-once ends with what refresh returned, Ok or the cycle-fatal
\* error; in daemon mode a cycle that returns an error leaves the loop at its
\* select! with the process alive, where a later cycle can be started; and a
\* cycle is started only when none is under way.
C18_Surfacing ==
    [][/\ (mode = "once" /\ pc' = "exited") => (ret' \in {"ok", "err"} /\ exit' = ret')
       /\ (mode = "daemon" /\ cycles' = cycles + 1 /\ ret' = "err")
              => (pc' = "idle" /\ exit' = "none" /\ errors' = errors + 1)
       /\ (mode = "daemon" /\ ret = "err" /\ pc = "idle" /\ cycles < MaxCycles)
              => ENABLED DaemonRefresh
       /\ (cycles' # cycles) => (pc \in {"start", "idle"} /\ ret # "running")]_vars

\* C18 witness: in daemon mode a cycle failed on its feed and a later cycle
\* has announced an item.
C18_Witness ==
    /\ mode = "daemon"
    /\ cycles = 2
    /\ errors = 1
    /\ ret = "ok"
    /\ pc = "idle"
    /\ exit = "none"
    /\ sink # {}
    /\ store # {}
\* ------------------------------------------------- main.rs: create-only
KvFeedLen == 2     \* items in a channel fetched under SpecKv

KvFeeds == SeqsUpTo(Items, KvFeedLen)

\* the comparison with a slip: `<=`
KvIsNewerOrEqual(last_pub_datetime, pub) == last_pub_datetime <= pub

\* if last_pub_datetime < pub_datetime
KvIsNewer(last_pub_datetime, pub) == last_pub_datetime < pub

\* RefreshDb::insert: sled's insert sets or replaces the value under the key
KvInsertValue(kg, g, t) ==
    [k \in DOMAIN kg \cup {g} |-> IF k = g THEN t ELSE kg[k]]

\* item_to_embed(item, is_update): the title carries "UPDATE: " when is_update
KvEmbed(item, upd) == [guid |-> item.guid, t |-> item.t, update |-> upd]

\* where the loop of main.rs stands after a `?` in its body took the Err
\* branch: refresh has returned, and main with it
KvOnItemError == "exited"

\* main, after the tree is opened and the webhook fetched; the tree is empty
\* on the first run
InitKv ==
    /\ InitMain
    /\ mode = "once"

KvStep(op, ok, arg) == log' = Append(log, Event(op, ok, arg))

KvFail ==
    /\ pc' = KvOnItemError
    /\ ret' = IF KvOnItemError = "exited" THEN "err" ELSE ret
    /\ exit' = IF KvOnItemError = "exited" THEN "err" ELSE exit

\* refresh: the channel was fetched
KvRefresh ==
    /\ pc = "start"
    /\ \E f \in KvFeeds : feed' = f
    /\ cycles' = cycles + 1
    /\ idx' = 0
    /\ log' = <<>>
    /\ pre' = known_guids
    /\ pc' = "item"
    /\ ret' = "running"
    /\ exit' = "none"
    /\ UNCHANGED <<locals, result, store, sink, replay, clean,
                   mode, shutdown, missed, errors, kv, ident>>

\* refresh: get_rss_channel failed
KvRefreshFeedError ==
    /\ pc = "start"
    /\ cycles' = cycles + 1
    /\ pc' = "exited"
    /\ ret' = "err"
    /\ exit' = "err"
    /\ UNCHANGED <<feed, idx, locals, result, store, sink, log, pre, replay, clean,
                   mode, shutdown, missed, errors, kv, ident>>

\* the head of the loop body: guid, publication date, known_guids.get(guid)
KvLoadItem ==
    /\ pc = "item"
    /\ idx < Len(feed)
    /\ idx' = idx + 1
    /\ pre' = known_guids
    /\ LET item == ItemAt(feed, idx + 1)
           ev(op, ok, arg) == [op |-> op, idx |-> idx + 1, ok |-> ok, arg |-> arg]
       IN  IF item.guid = NoGuid \/ item.pub # "rfc2822"
           THEN /\ log' = Append(log, ev("parse", FALSE, 0))
                /\ KvFail
                /\ UNCHANGED <<guid, pub_datetime, is_update>>
           ELSE \E dbok \in BOOLEAN :
                /\ guid' = item.guid
                /\ pub_datetime' = item.t
                /\ log' = log \o <<ev("parse", TRUE, 0), ev("get", dbok, 0)>>
                /\ IF ~dbok
                   THEN KvFail /\ UNCHANGED is_update
                   ELSE IF item.guid \in DOMAIN known_guids
                           /\ ~KvIsNewer(known_guids[item.guid], item.t)
                   THEN /\ pc' = "item"          \* continue
                        /\ UNCHANGED <<ret, exit, is_update>>
                   ELSE /\ is_update' = (item.guid \in DOMAIN known_guids)
                        /\ pc' = "render"
                        /\ UNCHANGED <<ret, exit>>
    /\ UNCHANGED <<cycles, feed, existing_post, embed, message, result, store, sink,
                   replay, clean, mode, shutdown, missed, errors, known_guids, ident>>

\* Self::item_to_embed(item, is_update)?
KvRender ==
    /\ pc = "render"
    /\ LET r == ItemToEmbed(ItemAt(feed, idx))
       IN  /\ KvStep("render", r = "Ok", 0)
           /\ CASE r = "Ok" ->
                     /\ embed' = KvEmbed(ItemAt(feed, idx), is_update)
                     /\ pc' = "sink"
                     /\ UNCHANGED <<ret, exit>>
                [] r = "Err" ->
                     /\ KvFail
                     /\ UNCHANGED embed
                [] r = "Panic" ->
                     /\ pc' = "panicked"
                     /\ ret' = "panic"
                     /\ UNCHANGED <<embed, exit>>
    /\ UNCHANGED <<cycles, feed, idx, guid, pub_datetime, existing_post, message, result,
                   store, sink, pre, replay, clean, mode, shutdown, missed, errors, kv, ident>>

\* self.webhook.execute(&self.http, false, ..).await?
KvExecute ==
    /\ pc = "sink"
    /\ \E ok \in BOOLEAN :
        /\ ok => NextMessageId < Pow2(IdBits)
        /\ KvStep("execute", ok, IF ok THEN NextMessageId ELSE 0)
        /\ IF ok
           THEN /\ sink' = sink \cup {[id |-> NextMessageId, guid |-> embed.guid,
                                       t |-> embed.t, update |-> embed.update]}
                /\ pc' = "write"
                /\ UNCHANGED <<ret, exit>>
           ELSE /\ KvFail
                /\ UNCHANGED sink
    /\ UNCHANGED <<cycles, feed, idx, locals, result, store, pre, replay, clean,
                   mode, shutdown, missed, errors, kv, ident>>

\* self.known_guids.insert(guid.to_string(), pub_datetime)?
KvInsert ==
    /\ pc = "write"
    /\ \E ok \in BOOLEAN :
        /\ KvStep("insert", ok, 0)
        /\ IF ok
           THEN /\ known_guids' = KvInsertValue(known_guids, guid, pub_datetime)
                /\ pc' = "item"
                /\ UNCHANGED <<ret, exit>>
           ELSE /\ KvFail
                /\ UNCHANGED known_guids
    /\ UNCHANGED <<cycles, feed, idx, locals, result, store, sink, pre, replay, clean,
                   mode, shutdown, missed, errors, is_update, ident>>

\* the loop is through: Ok(())
KvReturn ==
    /\ pc = "item"
    /\ idx = Len(feed)
    /\ pc' = "exited"
    /\ ret' = "ok"
    /\ exit' = "ok"
    /\ UNCHANGED <<cycles, feed, idx, locals, result, store, sink, log, pre, replay,
                   clean, mode, shutdown, missed, errors, kv, ident>>

\* the program is run again on the same tree
KvRerun ==
    /\ pc \in {"exited", "panicked"}
    /\ cycles < MaxCycles
    /\ pc' = "start"
    /\ UNCHANGED <<engine, proc, kv, ident>>

KvNext ==
    \/ KvRefresh
    \/ KvRefreshFeedError
    \/ KvLoadItem
    \/ KvRender
    \/ KvExecute
    \/ KvInsert
    \/ KvReturn
    \/ KvRerun

SpecKv == InitKv /\ [][KvNext]_vars
\* the loop of main.rs is between items or refresh has returned
KvHandled == pc \in {"item", "exited"} /\ idx >= 1

\* C19: the create-only refresh of main.rs makes no edit call.  An item whose
\* guid has no stored timestamp, or a stored timestamp earlier than the
\* item's, and whose steps all succeed, makes exactly one execute call; the
\* message carries the UPDATE title exactly when a timestamp was stored; and
\* the insert that follows stores the item's timestamp under the guid and
\* changes nothing else.  An item whose stored timestamp is equal or later
\* reaches neither render, execute nor insert.
C19_CreateOnly ==
    /\ \A k \in 1..Len(log) : log[k].op # "edit"
    /\ (/\ KvHandled
        /\ Parses(feed[idx])
        /\ AllSucceeded(idx)
        /\ (feed[idx].guid \notin DOMAIN pre \/ pre[feed[idx].guid] < feed[idx].t))
       => LET ev == EventsOf(log, idx)
          IN  /\ Ops(ev) = <<"parse", "get", "render", "execute", "insert">>
              /\ \E m \in sink :
                   /\ m.id = ev[4].arg
                   /\ m.guid = feed[idx].guid
                   /\ m.t = feed[idx].t
                   /\ m.update = (feed[idx].guid \in DOMAIN pre)
              /\ DOMAIN known_guids = DOMAIN pre \cup {feed[idx].guid}
              /\ known_guids[feed[idx].guid] = feed[idx].t
              /\ \A g \in DOMAIN pre \ {feed[idx].guid} : known_guids[g] = pre[g]
    /\ (/\ idx >= 1
        /\ Parses(feed[idx])
        /\ feed[idx].guid \in DOMAIN pre
        /\ pre[feed[idx].guid] >= feed[idx].t)
       => /\ \A k \in 1..Len(log) : log[k].idx = idx => log[k].op \in {"parse", "get"}
          /\ known_guids = pre
          /\ pc # "panicked"

\* C19 witness: a second run has announced a later publication of a guid the
\* first run had stored, as a second message with the UPDATE title.
C19_Witness ==
    /\ KvHandled
    /\ cycles = 2
    /\ AllSucceeded(idx)
    /\ feed[idx].guid \in DOMAIN pre
    /\ pre[feed[idx].guid] < feed[idx].t
    /\ \E m1, m2 \in sink :
         /\ m1.guid = feed[idx].guid /\ ~m1.update
         /\ m2.guid = feed[idx].guid /\ m2.update /\ m2.t = feed[idx].t

\* C20: in main.rs an item's error (missing guid, bad publication date,
\* failed get, render, execute or insert) does not end the run before every
\* item of the feed has been taken up.
C20_KvIsolation ==
    (pc = "exited" /\ idx >= 1 /\ ~AllSucceeded(idx)) => idx = Len(feed)
\* ------------------------------------- identifiers through the posts table
\* the u64 snowflakes and the i64 columns, at width IdBits
U64 == 0..(Pow2(IdBits) - 1)
I64 == (0 - Pow2(IdBits - 1))..(Pow2(IdBits - 1) - 1)

\* the key refresh_item filters and finds by, for the webhook w
KeyOf(w) == U64ToI64(w)

\* posts.filter(webhook_id.eq(key)).filter(announcement_id.eq(g))
LookupBy(st, key, g) == {r \in st : r.webhook_id = key /\ r.announcement_id = g}

\* a client of webhook `webhook` has got `message` back from execute for the
\* new item "g1"; the table is empty or holds the row another client, of
\* another webhook, wrote for the same guid
InitId ==
    /\ pc = "start"
    /\ cycles = 0
    /\ ret = "none"
    /\ feed = <<>>
    /\ idx = 0
    /\ guid = "g1"
    /\ pub_datetime = 1
    /\ existing_post = {}
    /\ embed = NoEmbed
    /\ message \in U64
    /\ result = "none"
    /\ webhook \in U64
    /\ \E w \in U64 \ {webhook}, m \in U64 :
          store \in {{}, {NewPost("g1", w, m, MaxTime)}}
    /\ sink = {}
    /\ log = <<>>
    /\ pre = store
    /\ replay = FALSE
    /\ clean = TRUE
    /\ mode = "none"
    /\ shutdown = FALSE
    /\ exit = "none"
    /\ missed = 0
    /\ errors = 0
    /\ known_guids = <<>>
    /\ is_update = FALSE
    /\ edited = 0

\* diesel::insert_into(posts).values(NewPost::new(guid, webhook.id, message.id, ..))
IdInsert ==
    /\ pc = "start"
    /\ store' = store \cup {NewPost(guid, webhook, message, pub_datetime)}
    /\ pc' = "stored"
    /\ UNCHANGED <<cycles, ret, feed, idx, locals, result, sink, log, pre, replay, clean,
                   proc, kv, ident>>

\* a later refresh_item of the same client: the lookup of the item's row
IdLookup ==
    /\ pc = "stored"
    /\ existing_post' = LookupBy(store, KeyOf(webhook), guid)
    /\ pc' = "found"
    /\ UNCHANGED <<cycles, ret, feed, idx, guid, pub_datetime, embed, message, result,
                   store, sink, log, pre, replay, clean, proc, kv, ident>>

\* edit_message(&self.http, existing_post.message_id(), ..)
IdEdit ==
    /\ pc = "found"
    /\ \E post \in existing_post :
          edited' = PostMessageId(post)
    /\ pc' = "edited"
    /\ UNCHANGED <<engine, proc, kv, webhook>>

IdNext ==
    \/ IdInsert
    \/ IdLookup
    \/ IdEdit

SpecId == InitId /\ [][IdNext]_vars

\* the row NewPost::new made of the client's webhook id and message id
IdRows == {r \in store \ pre : r.announcement_id = guid}

\* C21: every message id and webhook id, the ones with the top bit set
\* included, is stored by NewPost::new as a value of the signed column and
\* read back by Post::message_id and Post::webhook_id as the id it was; the
\* key refresh_item looks up by is the key NewPost::new stored, so the lookup
\* finds that row and no other; and the edit is addressed to the message
\* the create returned.
C21_RoundTrip ==
    /\ pc \in {"stored", "found", "edited"} =>
          /\ Cardinality(IdRows) = 1
          /\ \A r \in IdRows :
                /\ r.webhook_id \in I64
                /\ r.message_id \in I64
                /\ PostWebhookId(r) = webhook
                /\ PostMessageId(r) = message
                /\ r.webhook_id = KeyOf(webhook)
    /\ pc \in {"found", "edited"} => existing_post = IdRows
    /\ pc = "edited" => edited = message

\* C21 witness: a message id and a webhook id with the top bit set went
\* through the table, next to the row of another webhook with the top bit
\* set, and the edit was addressed.
C21_Witness ==
    /\ pc = "edited"
    /\ webhook >= Pow2(IdBits - 1)
    /\ message >= Pow2(IdBits - 1)
    /\ edited = message
    /\ \E r \in pre : r.webhook_id < 0 /\ r.message_id < 0
    /\ \E r \in IdRows : r.webhook_id < 0 /\ r.message_id < 0
====
